---- MODULE Spec2Model ----
(***************************************************************************)
(* Model of the lead-relay backend (src/server.js; src/unnamed/part_000 is  *)
(* an earlier revision with the same helpers and the same POST handler).   *)
(*                                                                         *)
(* JavaScript strings are sequences of one-character strings, so that      *)
(* String.prototype.trim and .length are computed, not assumed.            *)
(***************************************************************************)
EXTENDS Integers, Sequences, FiniteSets, TLC

VARIABLES
    TELEGRAM_BOT_TOKEN, \* module constant read from the environment at startup
    TELEGRAM_CHAT_ID,   \* module constant read from the environment at startup
    pc,                 \* per request: position of the POST /api/lead handler
    body,               \* per request: the parsed request body (req.body)
    sent,               \* per request: the outbound fetch() calls issued for it
    resp,               \* per request: the fetch Response (status) once resolved
    reply,              \* per request: how the outbound call settled
    responses,          \* per request: the HTTP responses written to res
    crashed,            \* the Node process was terminated
    vin,                \* validator harness: the body under test
    vout                \* validator harness: what validateLead did with it

vars == <<TELEGRAM_BOT_TOKEN, TELEGRAM_CHAT_ID, pc, body, sent, resp, reply,
          responses, crashed, vin, vout>>

serverVars == <<TELEGRAM_BOT_TOKEN, TELEGRAM_CHAT_ID, pc, body, sent, resp,
                reply, responses, crashed>>

----------------------------------------------------------------------------
(* Bounds of the model *)

\* largest number of whitespace characters put on each side of a field value
MaxPad == 1

\* number of POST /api/lead requests that may be in flight together
NumRequests == 2

----------------------------------------------------------------------------
(* JavaScript values of a JSON body *)

\* the characters String.prototype.trim strips (those the model uses)
WS == {" ", "\t", "\n"}

Undefined == [k |-> "undefined", s |-> <<>>, n |-> 0]
Null      == [k |-> "null",      s |-> <<>>, n |-> 0]
Str(s)    == [k |-> "string",    s |-> s,    n |-> 0]
Num(n)    == [k |-> "number",    s |-> <<>>, n |-> n]
Bool(b)   == [k |-> "boolean",   s |-> <<>>, n |-> IF b THEN 1 ELSE 0]
\* a plain JSON object: String(v) is "[object Object]"
PlainObj  == [k |-> "object",    s |-> <<>>, n |-> 0]
\* a JSON object with an own, non-callable "toString" member, such as
\* {"toString": 1}: String(v) throws TypeError (cannot convert to primitive)
BadObj    == [k |-> "badobject", s |-> <<>>, n |-> 0]

RECURSIVE Rep(_, _)
Rep(c, n) == IF n = 0 THEN <<>> ELSE <<c>> \o Rep(c, n - 1)

DigitChar(d) == <<"0", "1", "2", "3", "4", "5", "6", "7", "8", "9">>[d + 1]

RECURSIVE Digits(_)
Digits(n) == IF n < 10 THEN <<DigitChar(n)>>
             ELSE Digits(n \div 10) \o <<DigitChar(n % 10)>>

\* String(v) for a value that is neither undefined nor null handled apart
ToStringJS(v) ==
    CASE v.k = "string"    -> v.s
      [] v.k = "number"    -> Digits(v.n)
      [] v.k = "boolean"   -> IF v.n = 1 THEN <<"t", "r", "u", "e">>
                                         ELSE <<"f", "a", "l", "s", "e">>
      [] v.k = "object"    -> <<"[", "o", "b", "j", "e", "c", "t", " ",
                                "O", "b", "j", "e", "c", "t", "]">>
      [] v.k = "undefined" -> <<"u", "n", "d", "e", "f", "i", "n", "e", "d">>
      [] v.k = "null"      -> <<"n", "u", "l", "l">>

\* String(v) throws
ToStringThrows(v) == v.k = "badobject"

RECURSIVE TrimStart(_)
TrimStart(s) == IF s # <<>> /\ Head(s) \in WS THEN TrimStart(Tail(s)) ELSE s

RECURSIVE TrimEnd(_)
TrimEnd(s) == IF s # <<>> /\ s[Len(s)] \in WS
              THEN TrimEnd(SubSeq(s, 1, Len(s) - 1)) ELSE s

Trim(s) == TrimEnd(TrimStart(s))

\* v ?? ""
Coalesce(v) == IF v.k \in {"undefined", "null"} THEN Str(<<>>) ELSE v

----------------------------------------------------------------------------
(* helpers of server.js *)

\* cleanStr without the .trim()
cleanStrNoTrim(v) == ToStringJS(Coalesce(v))

\* cleanStr(v) = String(v ?? "").trim()
cleanStr(v) == Trim(ToStringJS(Coalesce(v)))

cleanStrThrows(v) == ToStringThrows(Coalesce(v))

Fields == {"name", "contact", "type", "location", "needs", "timeline", "website"}

\* validateLead(body) throws before returning: one of the seven cleanStr calls throws
validateLeadThrows(b) == \E f \in Fields : cleanStrThrows(b[f])

\* errors = [id] in place of errors.push(id)
PushReplacing(errors, cond, id) == IF cond THEN <<id>> ELSE errors

\* if (cond) errors.push(id)
Push(errors, cond, id) == IF cond THEN Append(errors, id) ELSE errors

validateLead(b) ==
    LET name     == cleanStr(b.name)
        contact  == cleanStr(b.contact)
        type     == cleanStr(b.type)
        location == cleanStr(b.location)
        needs    == cleanStr(b.needs)
        timeline == cleanStr(b.timeline)
        website  == cleanStr(b.website)
        e1 == Push(<<>>, website # <<>>, "Spam.")
        e2 == Push(e1, Len(name) < 2, "name")
        e3 == Push(e2, Len(contact) < 5, "contact")
        e4 == Push(e3, Len(location) < 2, "location")
        e5 == Push(e4, Len(needs) < 10, "needs")
        e6 == Push(e5, type = <<>>, "type")
        e7 == Push(e6, timeline = <<>>, "timeline")
    IN  [ok     |-> Len(e7) = 0,
         errors |-> e7,
         data   |-> [name |-> name, contact |-> contact, type |-> type,
                     location |-> location, needs |-> needs,
                     timeline |-> timeline, website |-> website]]

----------------------------------------------------------------------------
(* Validator harness: validateLead applied to one body out of a bounded set *)

\* p whitespace characters, then n letters, then p whitespace characters
Padded(n, p) == Str(Rep(" ", p) \o Rep("x", n) \o Rep("\t", p))

\* values around a length threshold t: too short by one under every padding
\* (so the raw length reaches t while the trimmed length does not), and just
\* long enough, bare and padded
Around(t) == {Padded(t - 1, p) : p \in 0..MaxPad}
                 \cup {Padded(t, 0), Padded(t, MaxPad)}

\* besides the values around each threshold: a missing field, null, numbers
\* (0 is not nullish: String(0 ?? "") is "0"), booleans, a plain object, text
\* with inner whitespace, and an object on which String throws
NameValues     == Around(2)  \cup {Undefined, Num(7), Str(<<"x", " ", "x">>)}
ContactValues  == Around(5)  \cup {Num(12345)}
TypeValues     == Around(1)  \cup {Bool(FALSE)}
LocationValues == Around(2)
NeedsValues    == Around(10) \cup {PlainObj}
TimelineValues == Around(1)  \cup {Bool(TRUE)}
WebsiteValues  == Around(1)  \cup {Null, Num(0), BadObj}

TestBodies ==
    [name : NameValues, contact : ContactValues, type : TypeValues,
     location : LocationValues, needs : NeedsValues,
     timeline : TimelineValues, website : WebsiteValues]

NotRun == [st |-> "notrun", ok |-> FALSE, errors |-> <<>>]

Validate ==
    /\ vout.st = "notrun"
    /\ vout' = IF validateLeadThrows(vin)
               THEN [st |-> "threw", ok |-> FALSE, errors |-> <<>>]
               ELSE LET v == validateLead(vin)
                    IN  [st |-> "returned", ok |-> v.ok, errors |-> v.errors]
    /\ UNCHANGED <<vin, serverVars>>


----------------------------------------------------------------------------
(* POST /api/lead *)

\* const TELEGRAM_... = String(process.env.TELEGRAM_... || "")
EnvValues == {"", "set"}

\* || in place of &&
requiredEnvOkEither == TELEGRAM_BOT_TOKEN # "" \/ TELEGRAM_CHAT_ID # ""

\* requiredEnvOk(): Boolean(TELEGRAM_BOT_TOKEN && TELEGRAM_CHAT_ID)
requiredEnvOk == TELEGRAM_BOT_TOKEN # "" /\ TELEGRAM_CHAT_ID # ""

\* JavaScript truthiness of a value
Truthy(v) ==
    CASE v.k \in {"undefined", "null"} -> FALSE
      [] v.k = "string"  -> v.s # <<>>
      [] v.k = "number"  -> v.n # 0
      [] v.k = "boolean" -> v.n = 1
      [] OTHER           -> TRUE

\* new Intl.DateTimeFormat("uk-UA", ...).format(new Date())
Times == {"30.10.2026, 12:00"}

\* formatTelegramMessage(d): the template's labels stand for the emoji and
\* Ukrainian label texts of the source, in the source's order
formatTelegramMessage(d, dt) ==
    <<"[lead]", "\n", "[time] ", dt, "\n", "\n", "[client] ">> \o d.name
        \o <<"\n", "[contact] ">> \o d.contact
        \o <<"\n", "\n", "[type] ">> \o d.type
        \o <<"\n", "[location] ">> \o d.location
        \o <<"\n", "[start] ">> \o d.timeline
        \o <<"\n", "\n", "[request]", "\n">> \o d.needs \o <<"\n">>

\* the fetch() call of sendToTelegram: url and JSON body
FetchCall(text) ==
    [url |-> <<"https://api.telegram.org/bot", TELEGRAM_BOT_TOKEN, "/sendMessage">>,
     method |-> "POST",
     chat_id |-> TELEGRAM_CHAT_ID,
     text |-> text,
     disable_web_page_preview |-> TRUE]

NoBody == [present |-> FALSE,
           fields  |-> [f \in Fields |-> Undefined]]

\* req.body || {}
ReqBody(b) == IF b.present THEN b.fields ELSE [f \in Fields |-> Undefined]

\* the three JSON envelopes the handler writes
Json200 == [status |-> 200, keys |-> {"ok"}, ok |-> TRUE,
            message |-> <<>>, fields |-> <<>>]

Json400(errors) == [status |-> 400, keys |-> {"ok", "message", "fields"},
                    ok |-> FALSE, message |-> <<"[invalid form data]">>,
                    fields |-> errors]

Json500(message) == [status |-> 500, keys |-> {"ok", "message"}, ok |-> FALSE,
                     message |-> message, fields |-> <<>>]

MsgNotConfigured == <<"[Telegram is not configured on the server]">>
MsgSendFailed    == <<"[Telegram send error]">>

\* e?.message || "..."
CatchMessage(m) == IF m # <<>> THEN m ELSE MsgSendFailed

\* the configuration test moved before the validation test
HandlerDecisionEnvFirst(b) ==
    IF validateLeadThrows(ReqBody(b)) THEN "throw"
    ELSE IF ~requiredEnvOk THEN "500"
    ELSE IF ~validateLead(ReqBody(b)).ok THEN "400"
    ELSE "send"

\* what the synchronous part of the handler does with a body
HandlerDecision(b) ==
    IF validateLeadThrows(ReqBody(b)) THEN "throw"
    ELSE IF ~validateLead(ReqBody(b)).ok THEN "400"
    ELSE IF ~requiredEnvOk THEN "500"
    ELSE "send"

\* Response.ok
RespOk(status) == status >= 200 /\ status <= 299

NoPayload == [kind |-> "none", ok |-> Undefined, description |-> Undefined]
EmptyObject == [kind |-> "object", ok |-> Undefined, description |-> Undefined]

\* await resp.json().catch(() => ({}))
JsonData(p) == IF p.kind = "unparseable" THEN EmptyObject ELSE p

\* `HTTP ${resp.statusText}` in place of `HTTP ${resp.status}`
DescStatusText(status, data) ==
    IF data.kind # "null" /\ Truthy(data.description)
    THEN ToStringJS(data.description)
    ELSE <<"HTTP ", "[status text]">>

\* the HTTP status preferred to the provider's description
DescStatusFirst(status, data) ==
    IF ~RespOk(status) \/ data.kind = "null" \/ ~Truthy(data.description)
    THEN <<"HTTP ">> \o Digits(status)
    ELSE ToStringJS(data.description)

\* data?.description || `HTTP ${resp.status}`
Desc(status, data) ==
    IF data.kind # "null" /\ Truthy(data.description)
    THEN ToStringJS(data.description)
    ELSE <<"HTTP ">> \o Digits(status)

\* if (!resp.ok && !data.ok) in place of ||
sendToTelegramAnd(status, p) ==
    LET data == JsonData(p)
    IN  IF ~RespOk(status) /\ (data.kind = "null" \/ ~Truthy(data.ok))
        THEN [threw |-> TRUE, message |-> <<"Telegram error: ">> \o Desc(status, data)]
        ELSE [threw |-> FALSE, message |-> <<>>]

\* lines 111-117 of sendToTelegram once the body has been read
sendToTelegram(status, p) ==
    LET data == JsonData(p)
    IN  IF ~RespOk(status)
        THEN [threw |-> TRUE, message |-> <<"Telegram error: ">> \o Desc(status, data)]
        ELSE IF data.kind = "null"
        THEN [threw |-> TRUE,
              message |-> <<"Cannot read properties of null (reading 'ok')">>]
        ELSE IF ~Truthy(data.ok)
        THEN [threw |-> TRUE, message |-> <<"Telegram error: ">> \o Desc(status, data)]
        ELSE [threw |-> FALSE, message |-> <<>>]

\* the handler's try/catch around sendToTelegram
AfterSend(result) ==
    IF result.threw THEN Json500(CatchMessage(result.message)) ELSE Json200

NoReply == [kind |-> "none", err |-> <<>>, payload |-> NoPayload]

Requests == 1..NumRequests

InFlight == {"awaitFetch", "awaitJson"}

Respond(r, j) == responses' = [responses EXCEPT ![r] = Append(@, j)]

\* app.post("/api/lead", async (req, res) => ...) up to its first await
HandleLead(r, b) ==
    /\ ~crashed
    /\ pc[r] = "idle"
    /\ body' = [body EXCEPT ![r] = b]
    /\ \/ /\ HandlerDecision(b) = "throw"
          \* validateLead is called outside the try: the async handler's promise
          \* rejects, no response is written, and nothing in this file handles
          \* the rejection. What the runtime makes of it is not decided here:
          \* either the unhandled rejection terminates the process (Node's
          \* default), cutting off the requests suspended at an await, or the
          \* process goes on and only this request is left without a response
          \* from the handler
          /\ \/ /\ crashed' = TRUE
                /\ pc' = [q \in Requests |->
                            IF q = r THEN "rejected"
                            ELSE IF pc[q] \in InFlight THEN "aborted" ELSE pc[q]]
             \/ /\ crashed' = crashed
                /\ pc' = [pc EXCEPT ![r] = "rejected"]
          /\ UNCHANGED <<sent, responses>>
       \/ /\ HandlerDecision(b) = "400"
          /\ Respond(r, Json400(validateLead(ReqBody(b)).errors))
          /\ pc' = [pc EXCEPT ![r] = "done"]
          /\ UNCHANGED <<sent, crashed>>
       \/ /\ HandlerDecision(b) = "500"
          /\ Respond(r, Json500(MsgNotConfigured))
          /\ pc' = [pc EXCEPT ![r] = "done"]
          /\ UNCHANGED <<sent, crashed>>
       \/ /\ HandlerDecision(b) = "send"
          /\ \E dt \in Times :
                sent' = [sent EXCEPT ![r] = Append(@,
                    FetchCall(formatTelegramMessage(validateLead(ReqBody(b)).data, dt)))]
          /\ pc' = [pc EXCEPT ![r] = "awaitFetch"]
          /\ UNCHANGED <<responses, crashed>>
    /\ UNCHANGED <<TELEGRAM_BOT_TOKEN, TELEGRAM_CHAT_ID, resp, reply, vin, vout>>

\* a rejected fetch answered by sending the message again
FetchRejectedRetry(r, m) ==
    /\ ~crashed
    /\ pc[r] = "awaitFetch"
    /\ Len(sent[r]) < 2
    /\ sent' = [sent EXCEPT ![r] = Append(@, @[1])]
    /\ UNCHANGED <<TELEGRAM_BOT_TOKEN, TELEGRAM_CHAT_ID, pc, body, resp, reply,
                   responses, crashed, vin, vout>>

\* await fetch(...) rejects: the provider could not be reached
FetchRejected(r, m) ==
    /\ ~crashed
    /\ pc[r] = "awaitFetch"
    /\ reply' = [reply EXCEPT ![r] = [kind |-> "rejected", err |-> m, payload |-> NoPayload]]
    /\ Respond(r, Json500(CatchMessage(m)))
    /\ pc' = [pc EXCEPT ![r] = "done"]
    /\ UNCHANGED <<TELEGRAM_BOT_TOKEN, TELEGRAM_CHAT_ID, body, sent, resp, crashed, vin, vout>>

\* await fetch(...) resolves with a Response
FetchResolved(r, status) ==
    /\ ~crashed
    /\ pc[r] = "awaitFetch"
    /\ resp' = [resp EXCEPT ![r] = status]
    /\ pc' = [pc EXCEPT ![r] = "awaitJson"]
    /\ UNCHANGED <<TELEGRAM_BOT_TOKEN, TELEGRAM_CHAT_ID, body, sent, reply, responses,
                   crashed, vin, vout>>

\* await resp.json().catch(...) settles; the rest of sendToTelegram and of the
\* handler run to the response
JsonSettled(r, p) ==
    /\ ~crashed
    /\ pc[r] = "awaitJson"
    /\ reply' = [reply EXCEPT ![r] = [kind |-> "json", err |-> <<>>, payload |-> p]]
    /\ Respond(r, AfterSend(sendToTelegram(resp[r], p)))
    /\ pc' = [pc EXCEPT ![r] = "done"]
    /\ UNCHANGED <<TELEGRAM_BOT_TOKEN, TELEGRAM_CHAT_ID, body, sent, resp, crashed, vin, vout>>

----------------------------------------------------------------------------
(* Inputs of the handler *)

ScenarioA ==
    [name     |-> Str(<<"A", "n", "n">>),
     contact  |-> Str(<<"1", "2", "3", "4", "5">>),
     type     |-> Str(<<"h", "o", "u", "s", "e">>),
     location |-> Str(<<"N", "Y">>),
     needs    |-> Str(<<"n", "e", "e", "d", " ", "h", "e", "l", "p", " ", "m", "o",
                        "v", "i", "n", "g", " ", "s", "o", "o", "n">>),
     timeline |-> Str(<<"a", "s", "a", "p">>),
     website  |-> Undefined]

ScenarioB ==
    [ScenarioA EXCEPT !.website =
        Str(<<"h", "t", "t", "p", ":", "/", "/", "s", "p", "a", "m", ".", "c", "o", "m">>)]

ScenarioC ==
    [name     |-> Str(<<"A">>),
     contact  |-> Str(<<"1", "2", "3">>),
     type     |-> Str(<<>>),
     location |-> Str(<<>>),
     needs    |-> Str(<<"s", "h", "o", "r", "t">>),
     timeline |-> Str(<<>>),
     website  |-> Undefined]

\* a valid submission with padded and non-string values
PaddedLead ==
    [name     |-> Str(<<" ", "J", "o", "\n">>),
     contact  |-> Num(12345),
     type     |-> Bool(TRUE),
     location |-> Str(<<"\t", "L", "A">>),
     needs    |-> PlainObj,
     timeline |-> Num(0),
     website  |-> Str(<<" ", " ">>)]

\* {"name": {"toString": 1}, ...}
PoisonLead == [ScenarioA EXCEPT !.name = BadObj]

Bodies == {NoBody} \cup
          {[present |-> TRUE, fields |-> f] :
              f \in {ScenarioA, ScenarioB, ScenarioC, PaddedLead, PoisonLead}}

\* e.message of a rejected fetch
NetworkErrors == {<<"fetch failed">>, <<>>}

Statuses == {200, 400, 502}

DescText == Str(<<"B", "a", "d", " ", "R", "e", "q", "u", "e", "s", "t">>)

Object(ok, description) == [kind |-> "object", ok |-> ok, description |-> description]

\* what the provider answers: a body that is not JSON, the JSON value null, or
\* a JSON object with or without the ok flag and the description
Payloads ==
    {[kind |-> "unparseable", ok |-> Undefined, description |-> Undefined],
     [kind |-> "null", ok |-> Undefined, description |-> Undefined],
     Object(Undefined, Undefined),
     Object(Bool(TRUE), Undefined),
     Object(Bool(TRUE), DescText),
     Object(Bool(FALSE), DescText),
     Object(Bool(FALSE), Str(<<>>))}

ServerIdle ==
    /\ pc = [r \in Requests |-> "idle"]
    /\ body = [r \in Requests |-> NoBody]
    /\ sent = [r \in Requests |-> <<>>]
    /\ resp = [r \in Requests |-> 0]
    /\ reply = [r \in Requests |-> NoReply]
    /\ responses = [r \in Requests |-> <<>>]
    /\ crashed = FALSE

ValidatorInit ==
    /\ TELEGRAM_BOT_TOKEN = ""
    /\ TELEGRAM_CHAT_ID = ""
    /\ ServerIdle
    /\ vin \in TestBodies
    /\ vout = NotRun

ValidatorNext == Validate

ValidatorSpec == ValidatorInit /\ [][ValidatorNext]_vars

Init ==
    /\ TELEGRAM_BOT_TOKEN \in EnvValues
    /\ TELEGRAM_CHAT_ID \in EnvValues
    /\ ServerIdle
    /\ vin = ScenarioA
    /\ vout = NotRun

Next ==
    \/ \E r \in Requests, b \in Bodies : HandleLead(r, b)
    \/ \E r \in Requests, m \in NetworkErrors : FetchRejected(r, m)
    \/ \E r \in Requests, status \in Statuses : FetchResolved(r, status)
    \/ \E r \in Requests, p \in Payloads : JsonSettled(r, p)

Spec == Init /\ [][Next]_vars

----------------------------------------------------------------------------
(* Properties of validateLead (checked under ValidatorSpec) *)

Range(q) == {q[i] : i \in 1..Len(q)}

\* the text of a field as section 4.1 normalises it: coerced to text, then
\* everything from the first to the last non-whitespace character
Normalized(v) ==
    LET raw == ToStringJS(Coalesce(v))
        ink == {i \in 1..Len(raw) : raw[i] \notin WS}
    IN  IF ink = {} THEN <<>>
        ELSE SubSeq(raw, CHOOSE i \in ink : \A j \in ink : i <= j,
                         CHOOSE i \in ink : \A j \in ink : i >= j)

CheckOrder == <<"Spam.", "name", "contact", "location", "needs", "type", "timeline">>

\* the condition of each check of section 4.1
CheckFails(id, b) ==
    CASE id = "Spam."    -> Normalized(b.website) # <<>>
      [] id = "name"     -> Len(Normalized(b.name)) < 2
      [] id = "contact"  -> Len(Normalized(b.contact)) < 5
      [] id = "location" -> Len(Normalized(b.location)) < 2
      [] id = "needs"    -> Len(Normalized(b.needs)) < 10
      [] id = "type"     -> Normalized(b.type) = <<>>
      [] id = "timeline" -> Normalized(b.timeline) = <<>>

\* q lists some of the identifiers of CheckOrder, each at most once, in that
\* order: q is CheckOrder with the identifiers absent from q left out
InCheckOrder(q) == q = SelectSeq(CheckOrder, LAMBDA id : id \in Range(q))

\* C1: whenever validateLead returns, its errors list holds exactly the
\* identifiers of the checks whose condition holds on the trimmed text, each
\* once, in the fixed order, and ok is true exactly when the list is empty
C1_ErrorsAreExactlyTheFailedChecks ==
    vout.st = "returned" =>
        /\ Range(vout.errors) = {id \in Range(CheckOrder) : CheckFails(id, vin)}
        /\ InCheckOrder(vout.errors)
        /\ vout.ok <=> vout.errors = <<>>

\* a submission whose name and needs are long enough only before trimming
\* fails both checks, and nothing else
C1_Witness ==
    /\ vout.st = "returned"
    /\ vout.errors = <<"name", "needs">>
    /\ Len(ToStringJS(Coalesce(vin.name))) >= 2
    /\ Len(ToStringJS(Coalesce(vin.needs))) >= 10

\* the website field as submitted holds something
RawNonEmpty(v) == v.k \notin {"undefined", "null"} /\ ToStringJS(v) # <<>>

\* C2 as stated: a non-empty website field makes validation fail with "Spam."
C2_NonEmptyWebsiteIsSpam ==
    (vout.st = "returned" /\ RawNonEmpty(vin.website)) =>
        (~vout.ok /\ "Spam." \in Range(vout.errors))

\* C2 (amended): a website field that is non-empty after trimming makes
\* validation fail with "Spam." among the identifiers, whatever the other fields
C2_TrimmedWebsiteIsSpam ==
    (vout.st = "returned" /\ Normalized(vin.website) # <<>>) =>
        (~vout.ok /\ "Spam." \in Range(vout.errors))

\* the honeypot is the only failed check of an otherwise valid submission
C2_Witness ==
    /\ vout.st = "returned"
    /\ Normalized(vin.website) # <<>>
    /\ vout.errors = <<"Spam.">>

----------------------------------------------------------------------------
(* Properties of POST /api/lead (checked under Spec) *)

Handled(r) == pc[r] # "idle"

Threw(r) == validateLeadThrows(ReqBody(body[r]))

Valid(r) == ~Threw(r) /\ validateLead(ReqBody(body[r])).ok

Invalid(r) == ~Threw(r) /\ ~validateLead(ReqBody(body[r])).ok

\* C3: an Invalid submission is answered 400 with ok:false and the validator's
\* list as fields, and no outbound call is made for it, in any configuration
C3_InvalidIs400WithoutDelivery ==
    \A r \in Requests :
        (Handled(r) /\ Invalid(r)) =>
            /\ Len(responses[r]) = 1
            /\ responses[r][1].status = 400
            /\ responses[r][1].ok = FALSE
            /\ responses[r][1].fields = validateLead(ReqBody(body[r])).errors
            /\ sent[r] = <<>>

\* scenario C answered 400 with all six identifiers while nothing is configured
C3_Witness ==
    \E r \in Requests :
        /\ pc[r] = "done"
        /\ body[r].present /\ body[r].fields = ScenarioC
        /\ ~requiredEnvOk
        /\ responses[r][1].status = 400
        /\ responses[r][1].fields =
               <<"name", "contact", "location", "needs", "type", "timeline">>

\* C4 as stated: without credentials every submission, valid or invalid, is
\* answered 500 (missing configuration) and no delivery is attempted
C4_UnconfiguredIsAlways500 ==
    \A r \in Requests :
        (Handled(r) /\ ~Threw(r) /\ ~requiredEnvOk) =>
            /\ responses[r] = <<Json500(MsgNotConfigured)>>
            /\ sent[r] = <<>>

\* C4 (amended): without credentials no delivery is attempted for any
\* submission; a Valid one is answered 500 (missing configuration), an
\* Invalid one is answered 400
C4_UnconfiguredValidIs500 ==
    ~(TELEGRAM_BOT_TOKEN # "" /\ TELEGRAM_CHAT_ID # "") =>
        \A r \in Requests :
            /\ sent[r] = <<>>
            /\ (Handled(r) /\ Valid(r)) =>
                   responses[r] = <<Json500(MsgNotConfigured)>>
            /\ (Handled(r) /\ Invalid(r)) =>
                   (Len(responses[r]) = 1 /\ responses[r][1].status = 400)

\* a valid submission answered 500 when only the chat id is missing
C4_Witness ==
    \E r \in Requests :
        /\ TELEGRAM_BOT_TOKEN # "" /\ TELEGRAM_CHAT_ID = ""
        /\ pc[r] = "done"
        /\ Valid(r)
        /\ responses[r] = <<Json500(MsgNotConfigured)>>
        /\ sent[r] = <<>>

\* C5: a handled request has issued exactly one outbound call if its submission
\* is Valid and both credentials are configured, whatever became of the call,
\* and none otherwise
C5_ExactlyOneCall ==
    \A r \in Requests :
        Len(sent[r]) = IF Handled(r) /\ Valid(r)
                          /\ TELEGRAM_BOT_TOKEN # "" /\ TELEGRAM_CHAT_ID # ""
                       THEN 1 ELSE 0

\* a request whose only call failed on the network, and one whose call was
\* answered with a failure, both over
C5_Witness ==
    \E r, q \in Requests :
        /\ pc[r] = "done" /\ reply[r].kind = "rejected" /\ Len(sent[r]) = 1
        /\ pc[q] = "done" /\ reply[q].kind = "json" /\ responses[q][1].status = 500
        /\ Len(sent[q]) = 1

\* m ends with "HTTP <status>"
EndsWithHttpStatus(m, status) ==
    \E i \in 1..Len(m) : SubSeq(m, i, Len(m)) = <<"HTTP ">> \o Digits(status)

MentionsHttp(m) == "HTTP " \in Range(m)

Unreachable(r) == reply[r].kind = "rejected"

GarbledNon2xx(r) ==
    /\ reply[r].kind = "json"
    /\ ~(resp[r] >= 200 /\ resp[r] <= 299)
    /\ reply[r].payload.kind = "unparseable"

\* C6 as stated: an unreachable provider, or a non-2xx answer with an
\* unparseable body, gives a 500 whose message is "HTTP <status>"
C6_TransportFailureIsHttpStatus ==
    \A r \in Requests :
        (pc[r] = "done" /\ (Unreachable(r) \/ GarbledNon2xx(r))) =>
            /\ Len(responses[r]) = 1
            /\ responses[r][1].status = 500
            /\ EndsWithHttpStatus(responses[r][1].message, resp[r])

\* C6 (amended): a non-2xx answer with an unparseable body gives a 500 whose
\* message is "Telegram error: HTTP <status>"; an unreachable provider gives a
\* 500 whose message is the network error's own message, or the fixed
\* fallback text when it has none
C6_TransportFailureIs500 ==
    \A r \in Requests :
        /\ (pc[r] = "done" /\ GarbledNon2xx(r)) =>
               /\ Len(responses[r]) = 1
               /\ responses[r][1].status = 500
               /\ responses[r][1].ok = FALSE
               /\ responses[r][1].message =
                      <<"Telegram error: ", "HTTP ">> \o Digits(resp[r])
        /\ (pc[r] = "done" /\ Unreachable(r)) =>
               /\ Len(responses[r]) = 1
               /\ responses[r][1].status = 500
               /\ responses[r][1].ok = FALSE
               /\ responses[r][1].message =
                      (IF reply[r].err # <<>> THEN reply[r].err ELSE MsgSendFailed)

\* one request answered "HTTP 502", another whose fetch was rejected
C6_Witness ==
    \E r, q \in Requests :
        /\ pc[r] = "done" /\ GarbledNon2xx(r) /\ resp[r] = 502
        /\ responses[r][1].message = <<"Telegram error: ", "HTTP ", "5", "0", "2">>
        /\ pc[q] = "done" /\ Unreachable(q)
        /\ responses[q][1].message = <<"fetch failed">>

PayloadOkTrue(p) == p.kind = "object" /\ p.ok = Bool(TRUE)

HasDescription(p) ==
    p.kind = "object" /\ p.description.k = "string" /\ p.description.s # <<>>

\* the provider answered with a payload that parses, and it is a failure
ProviderFailure(r) ==
    /\ reply[r].kind = "json"
    /\ reply[r].payload.kind \in {"object", "null"}
    /\ \/ ~(resp[r] >= 200 /\ resp[r] <= 299)
       \/ ~PayloadOkTrue(reply[r].payload)

\* C7: a failure answered by the provider gives a 500; its message carries the
\* provider's description when there is one, and is the generic HTTP-status
\* message only when there is none
C7_ProviderDescriptionPreferred ==
    \A r \in Requests :
        (pc[r] = "done" /\ ProviderFailure(r)) =>
            /\ Len(responses[r]) = 1
            /\ responses[r][1].status = 500
            /\ responses[r][1].ok = FALSE
            /\ HasDescription(reply[r].payload) =>
                   responses[r][1].message =
                       <<"Telegram error: ">> \o reply[r].payload.description.s
            /\ MentionsHttp(responses[r][1].message) =>
                   ~HasDescription(reply[r].payload)

\* a non-2xx answer with a description, reported with the description
C7_Witness ==
    \E r \in Requests :
        /\ pc[r] = "done"
        /\ resp[r] = 400
        /\ reply[r].payload = Object(Bool(FALSE), DescText)
        /\ responses[r] = <<Json500(<<"Telegram error: ">> \o DescText.s)>>

IsEnvelope(j) ==
    \/ j.status = 200 /\ j.keys = {"ok"} /\ j.ok = TRUE
    \/ j.status = 400 /\ j.keys = {"ok", "message", "fields"} /\ j.ok = FALSE
    \/ j.status = 500 /\ j.keys = {"ok", "message"} /\ j.ok = FALSE

\* C8: a request that reached the handler never gets two responses, its
\* handler never ends in a fault nobody catches, and once it is over it has
\* exactly one response, one of the three JSON envelopes
C8_OneEnvelopePerRequest ==
    \A r \in Requests :
        /\ Len(responses[r]) <= 1
        /\ pc[r] \notin {"rejected", "aborted"}
        /\ pc[r] = "done" => (Len(responses[r]) = 1 /\ IsEnvelope(responses[r][1]))

\* what a request's own body, the configuration and the outcome of its own
\* outbound call determine
OwnPc(r) ==
    CASE Threw(r) -> "rejected"
      [] Invalid(r) \/ ~requiredEnvOk -> "done"
      [] reply[r].kind # "none" -> "done"
      [] resp[r] # 0 -> "awaitJson"
      [] OTHER -> "awaitFetch"

OwnResponses(r) ==
    CASE Threw(r) -> <<>>
      [] Invalid(r) -> <<Json400(validateLead(ReqBody(body[r])).errors)>>
      [] ~requiredEnvOk -> <<Json500(MsgNotConfigured)>>
      [] reply[r].kind = "rejected" -> <<Json500(CatchMessage(reply[r].err))>>
      [] reply[r].kind = "json" ->
             <<AfterSend(sendToTelegram(resp[r], reply[r].payload))>>
      [] OTHER -> <<>>

OwnCalls(r) ==
    IF Valid(r) /\ requiredEnvOk
    THEN {<<FetchCall(formatTelegramMessage(validateLead(ReqBody(body[r])).data, dt))>> :
             dt \in Times}
    ELSE {<<>>}

IndependentOfOthers(r) ==
    Handled(r) =>
        /\ pc[r] = OwnPc(r)
        /\ responses[r] = OwnResponses(r)
        /\ sent[r] \in OwnCalls(r)

\* C9: what happens to each request (where its handler stands, what it was
\* answered, what it sent) is determined by its own body, the configuration
\* and the outcome of its own outbound call, under every interleaving
C9_RequestsAreIndependent == \A r \in Requests : IndependentOfOthers(r)

\* as long as the process runs, the requests are independent
IndependentWhileRunning == crashed \/ C9_RequestsAreIndependent

\* the configuration is never written after startup
ConfigurationIsReadOnly ==
    [][TELEGRAM_BOT_TOKEN' = TELEGRAM_BOT_TOKEN /\ TELEGRAM_CHAT_ID' = TELEGRAM_CHAT_ID]_vars

\* C10: a request is answered 200 only once its own outbound call has been
\* answered 2xx with a payload whose ok flag is true, and the 200 body holds
\* the ok flag alone
C10_200OnlyAfterProviderOk ==
    \A r \in Requests :
        \A i \in 1..Len(responses[r]) :
            responses[r][i].status = 200 =>
                /\ reply[r].kind = "json"
                /\ resp[r] >= 200 /\ resp[r] <= 299
                /\ PayloadOkTrue(reply[r].payload)
                /\ Len(sent[r]) = 1
                /\ responses[r][i] = [status |-> 200, keys |-> {"ok"}, ok |-> TRUE,
                                      message |-> <<>>, fields |-> <<>>]

\* a 200 whose provider payload also held a description, which is not passed on
C10_Witness ==
    \E r \in Requests :
        /\ pc[r] = "done"
        /\ reply[r].payload = Object(Bool(TRUE), DescText)
        /\ responses[r][1].status = 200
        /\ responses[r][1].keys = {"ok"}

====
